---- MODULE Spec2Model ----
(***************************************************************************)
(* A model of Hdf5TomoSaver (savu/plugins/savers/hdf5_tomo_saver.py): the  *)
(* store that creates one hdf5 backing file per output dataset, writes its *)
(* metadata, links it into the master (nxs) file and closes or re-opens    *)
(* it.                                                                     *)
(*                                                                         *)
(* Spec     one process's view of the saver's operations (setup,           *)
(*          _save_data, _close_file, _open_read_only) on the descriptors,  *)
(*          the backing files and the master file.                         *)
(* SpecMPI  NumProcs processes running setup() statement by statement,     *)
(*          synchronised by the barrier of the experiment.                 *)
(* SpecLabels  __output_axis_labels on the axis labels, the shape and the  *)
(*          meta data of one dataset, with the values it writes.           *)
(***************************************************************************)
EXTENDS Integers, Sequences, FiniteSets, TLC

\* Number of output datasets (Data objects) of the experiment.
NumData == 1
\* Number of cooperating processes of SpecMPI.
NumProcs == 3
\* Number of output datasets each process of SpecMPI sets up.
NumKeys == 2
\* Largest number of axes of a dataset of SpecLabels.
MaxAxes == 2
\* Largest extent of an axis of a dataset of SpecLabels.
MaxExtent == 2

Data == 1..NumData
Procs == 1..NumProcs
Keys == 1..NumKeys

VARIABLES
    mpi,        \* exp.meta_data.get("mpi") is True
    hasName,    \* the Data class gives its objects an attribute 'name'
    desc,       \* the Data objects: backing_file, data, group_name, group, data_info
    file,       \* the backing files on disk, one per Data object
    nxs,        \* exp.nxs_file['entry'], the master index
    linked,     \* history: the link types _save_data returned (entry, filename) for
    lastOp,     \* history: the last call of the saver, its Data object and its outcome
    cn,         \* SpecMPI: exp.meta_data 'current_and_next', one hint per dataset
    pc,         \* SpecMPI: each process's position in setup()
    arrived,    \* SpecMPI: how many barriers each process has entered
    nOpen,      \* SpecMPI: how many backing files each process has opened
    labelIn,    \* SpecLabels: axis_labels, shape and meta_data of the dataset
    labelOut    \* SpecLabels: the arrays and attributes written to its group

vars == <<mpi, hasName, desc, file, nxs, linked, lastOp, cn, pc, arrived, nOpen,
          labelIn, labelOut>>
labelVars == <<labelIn, labelOut>>
seqVars == <<mpi, hasName, desc, file, nxs, linked, lastOp, labelVars>>
mpiVars == <<cn, pc, arrived, nOpen>>

(***************************************************************************)
(* Names supplied by the experiment's meta data.                           *)
(***************************************************************************)
\* data.get_name() / data.data_info.get('name')
DataName(d) == "Peaks" \o ToString(d)
\* exp.meta_data.get(["group_name", key])
GroupName(d) == "grp" \o ToString(d)
\* exp.meta_data.get(["filename", key]), as its '/'-separated components
FileName(d) == <<"out", "run" \o ToString(d) \o ".h5">>
\* filename.split('/')[-1]
BaseName(path) == path[Len(path)]

(***************************************************************************)
(* Values.                                                                 *)
(***************************************************************************)
\* data.backing_file: None, or a h5py.File that is open or closed, with the mode
\* File.mode reads and the method that made it ("setup" or "reopen")
NoneHandle == [st |-> "None", mode |-> "-", by |-> "-"]
\* data.data: None, or the array node bound through setup or _open_read_only
NoneArray == [path |-> "", via |-> "none"]
NoFile == [exists |-> FALSE, groups |-> <<>>]
EmptyFile == [exists |-> TRUE, groups |-> <<>>]
NewGroup == [nxclass |-> "NXdata", signal |-> "data", layout |-> "none",
             chunks |-> "none", labels |-> FALSE, axes |-> FALSE, patterns |-> FALSE, meta |-> FALSE]
NoDesc == [backing_file |-> NoneHandle, data |-> NoneArray, group_name |-> "",
           group |-> "", info_group_name |-> ""]
EmptyNxs == [entry |-> {}, hasInter |-> FALSE, interClass |-> "", inter |-> {}]
\* the master index as an earlier plugin's saver has left it: one final and one
\* intermediate link of a dataset of that plugin
EarlierLink == [file |-> "run0.h5", path |-> "grp0"]
EarlierNxs ==
    [entry |-> {[name |-> "final_result_Peaks0"] @@ EarlierLink},
     hasInter |-> TRUE, interClass |-> "NXcollection",
     inter |-> {[name |-> "grp0_Peaks0"] @@ EarlierLink}]
NoOp == [name |-> "init", d |-> 0, remove |-> FALSE, err |-> "ok"]

LinkTypes == {"None", "final_result", "intermediate", "unknown"}

(***************************************************************************)
(* The running state of one call: the objects it mutates, the exception    *)
(* it has raised (err), the barriers it has called, the calls of           *)
(* h5py.File.close() and of the chunking it has made, the local variable   *)
(* chunks, the writes it has completed in their order (log), and the value *)
(* of the last expression (ret).  A raised exception skips every later     *)
(* statement.                                                              *)
(***************************************************************************)
Start == [desc |-> desc, file |-> file, nxs |-> nxs, linked |-> linked,
          err |-> "ok", barriers |-> 0, nclose |-> 0, closeOk |-> TRUE,
          nchunk |-> 0, chunks |-> "none", log |-> <<>>, ret |-> NoneHandle,
          retName |-> ""]

\* a write or a close has completed
done(s, what) == IF s.err = "ok" THEN [s EXCEPT !.log = Append(@, what)] ELSE s

raise(s, e) == IF s.err = "ok" THEN [s EXCEPT !.err = e] ELSE s

\* self.exp._barrier(), counted
barrier(s) == IF s.err = "ok" THEN [s EXCEPT !.barriers = @ + 1] ELSE s

(***************************************************************************)
(* h5py, as the saver uses it.                                             *)
(***************************************************************************)
\* h5py.File(filename, mode): 'w' creates or truncates the file, which hdf5
\* refuses while the file is open; 'r' needs the file to exist; File.mode then
\* reads 'r+' or 'r'.  ioOk: the storage lets the open succeed.
h5py_File(s, d, mode, ioOk) ==
    IF s.err # "ok" THEN s
    ELSE IF \/ ~ioOk
            \/ mode = "r" /\ ~s.file[d].exists
            \/ mode = "w" /\ s.desc[d].backing_file.st = "open"
         THEN raise(s, "IOError")
    ELSE IF mode = "w"
         THEN [s EXCEPT !.file[d] = EmptyFile,
                        !.ret = [st |-> "open", mode |-> "r+", by |-> "-"]]
         ELSE [s EXCEPT !.ret = [st |-> "open", mode |-> "r", by |-> "-"]]

\* a write through data.backing_file needs the file open and not read-only
CanWrite(s, d) ==
    /\ s.desc[d].backing_file.st = "open"
    /\ s.desc[d].backing_file.mode = "r+"

\* data.backing_file.create_group(group_name), with its two attributes
create_group(s, d, g) ==
    IF s.err # "ok" THEN s
    ELSE IF ~CanWrite(s, d) \/ g \in DOMAIN s.file[d].groups
         THEN raise(s, "ValueError")
    ELSE [s EXCEPT !.file[d].groups = @ @@ (g :> NewGroup)]

\* the in-file path of the "data" array of group g
DataPath(g) == "/" \o g \o "/data"

\* data.data = group.create_dataset("data", shape, data.dtype[, chunks=chunks])
create_dataset(s, d, g, layout) ==
    IF s.err # "ok" THEN s
    ELSE IF ~CanWrite(s, d) \/ g \notin DOMAIN s.file[d].groups
         THEN raise(s, "ValueError")
    ELSE IF s.file[d].groups[g].layout # "none" THEN raise(s, "ValueError")
    ELSE [s EXCEPT !.file[d].groups[g].layout = layout,
                   !.file[d].groups[g].chunks =
                       IF layout = "chunked" THEN s.chunks ELSE "none",
                   !.desc[d].data = [path |-> DataPath(g), via |-> "setup"]]

\* data.backing_file[entry] finds an array node
HasArray(f, path) ==
    \E g \in DOMAIN f.groups : path = DataPath(g) /\ f.groups[g].layout # "none"

(***************************************************************************)
(* Hdf5TomoSaver.                                                          *)
(***************************************************************************)
\* a failed open is passed over: the caller gets None
open_backing_h5_quiet(s, d, mode, ioOk) ==
    LET s1 == barrier(s)
        s2 == IF mpi THEN h5py_File(s1, d, "w", ioOk)
                     ELSE h5py_File(s1, d, mode, ioOk)
    IN  IF s2.err = "IOError" THEN barrier([s1 EXCEPT !.ret = NoneHandle])
                              ELSE barrier(s2)

open_backing_h5(s, d, mode, ioOk) ==
    LET s1 == barrier(s)
        s2 == IF mpi THEN h5py_File(s1, d, "w", ioOk)
                     ELSE h5py_File(s1, d, mode, ioOk)
        s3 == barrier(s2)
    IN  IF s3.err = "ok" /\ s3.ret = NoneHandle THEN raise(s3, "IOError") ELSE s3

\* the chunk shape Chunking(exp, current_and_next)._calculate_chunking returns
\* for the shape and dtype of the dataset
ChunkShape(hint) == "chunks" \o ToString(hint)

\* chunks = chunking._calculate_chunking(shape, data.dtype)
calculate_chunking(s, hint) ==
    IF s.err # "ok" THEN s
    ELSE [s EXCEPT !.chunks = ChunkShape(hint), !.nchunk = @ + 1]

\* the array is chunked whatever the hint is
create_entries_chunked(s, d, hint) ==
    LET s1 == barrier(s)
        base == GroupName(d)
        s2 == IF s1.err = "ok" THEN [s1 EXCEPT !.desc[d].info_group_name = base]
                               ELSE s1
        group_name == IF hasName THEN base \o "_" \o DataName(d) ELSE base
        s3 == create_group(s2, d, group_name)
        s4 == barrier(s3)
        s5 == create_dataset(barrier(calculate_chunking(barrier(s4), hint)), d,
                             group_name, "chunked")
        s6 == barrier(s5)
    IN  IF s6.err = "ok" THEN [s6 EXCEPT !.retName = group_name] ELSE s6

\* hint: current_and_next of this dataset.  data.name raises AttributeError, which
\* is passed over, when the Data object has no attribute 'name'.
create_entries(s, d, hint) ==
    LET s1 == barrier(s)
        base == GroupName(d)
        s2 == IF s1.err = "ok" THEN [s1 EXCEPT !.desc[d].info_group_name = base]
                               ELSE s1
        group_name == IF hasName THEN base \o "_" \o DataName(d) ELSE base
        s3 == create_group(s2, d, group_name)
        s4 == barrier(s3)
        s5 == IF hint = 0
              THEN create_dataset(s4, d, group_name, "contiguous")
              ELSE create_dataset(barrier(calculate_chunking(barrier(s4), hint)), d,
                                  group_name, "chunked")
        s6 == barrier(s5)
    IN  IF s6.err = "ok" THEN [s6 EXCEPT !.retName = group_name] ELSE s6

\* one turn of the loop of setup()
setup_one(s, d, in) ==
    LET s1 == open_backing_h5(s, d, "w", in[d].ioOk)
        s2 == IF s1.err = "ok"
              THEN [s1 EXCEPT !.desc[d].backing_file = [s1.ret EXCEPT !.by = "setup"]]
              ELSE s1
        s3 == create_entries(s2, d, in[d].hint)
    IN  IF s3.err = "ok"
        THEN [s3 EXCEPT !.desc[d].group_name = s3.retName,
                        !.desc[d].group = s3.retName]
        ELSE s3

RECURSIVE setup_loop(_, _, _)
setup_loop(s, keys, in) ==
    IF keys = {} THEN s
    ELSE LET key == CHOOSE k \in keys : \A j \in keys : k <= j
         IN  setup_loop(setup_one(s, key, in), keys \ {key}, in)

\* setup(): out_data is exp.index["out_data"], walked in key order
setup(s, out_data, in) == setup_loop(s, out_data, in)

output_axis_labels(s, d, entry) ==
    LET s1 == barrier(s)
        g == s1.desc[d].group
        s2 == IF s1.err # "ok" THEN s1
              ELSE IF ~CanWrite(s1, d) THEN raise(s1, "IOError")
              ELSE IF g \notin DOMAIN s1.file[d].groups THEN raise(s1, "ValueError")
              ELSE IF s1.file[d].groups[g].labels THEN raise(s1, "ValueError")
              ELSE [s1 EXCEPT !.file[d].groups[g].labels = TRUE,
                              !.file[d].groups[entry].axes = TRUE]
    IN  barrier(done(s2, "axis_labels"))

output_data_patterns(s, d, entry) ==
    LET s1 == barrier(s)
        s2 == IF s1.err # "ok" THEN s1
              ELSE IF ~CanWrite(s1, d) THEN raise(s1, "IOError")
              ELSE IF s1.file[d].groups[entry].patterns THEN raise(s1, "ValueError")
              ELSE [s1 EXCEPT !.file[d].groups[entry].patterns = TRUE]
    IN  barrier(done(s2, "patterns"))

output_metadata_dict(s, d, entry) ==
    LET s1 == barrier(s)
        s2 == IF s1.err # "ok" THEN s1
              ELSE IF ~CanWrite(s1, d) THEN raise(s1, "IOError")
              ELSE IF s1.file[d].groups[entry].meta THEN raise(s1, "ValueError")
              ELSE [s1 EXCEPT !.file[d].groups[entry].meta = TRUE]
    IN  barrier(done(s2, "meta_data"))

output_metadata(s, d, entry) ==
    output_metadata_dict(output_data_patterns(output_axis_labels(s, d, entry),
                                              d, entry), d, entry)

\* entry[name] = h5py.ExternalLink(filename, path): the name must be new
ExternalLink(s, where, name, target) ==
    LET links == IF where = "entry" THEN s.nxs.entry ELSE s.nxs.inter
        link == [name |-> name, file |-> target.file, path |-> target.path]
    IN  IF s.err # "ok" THEN s
        ELSE IF \E l \in links : l.name = name THEN raise(s, "RuntimeError")
        ELSE IF where = "entry"
             THEN [s EXCEPT !.nxs.entry = @ \cup {link}, !.log = Append(@, "link")]
        ELSE [s EXCEPT !.nxs.inter = @ \cup {link}, !.log = Append(@, "link")]

\* an unknown link type is taken as 'final_result'
register_link_default(s, d, linkType) ==
    LET target == [file |-> BaseName(FileName(d)), path |-> s.desc[d].group_name]
    IN  IF s.err # "ok" THEN s
        ELSE IF linkType = "intermediate"
             THEN ExternalLink(
                      [s EXCEPT !.nxs.hasInter = TRUE,
                                !.nxs.interClass = "NXcollection"],
                      "intermediate",
                      s.desc[d].group_name \o "_" \o DataName(d), target)
        ELSE ExternalLink(s, "entry", "final_result_" \o DataName(d), target)

\* the if / elif / else on linkType
register_link(s, d, linkType) ==
    LET target == [file |-> BaseName(FileName(d)), path |-> s.desc[d].group_name]
    IN  IF s.err # "ok" THEN s
        ELSE IF linkType = "final_result"
             THEN ExternalLink(s, "entry", "final_result_" \o DataName(d), target)
        ELSE IF linkType = "intermediate"
             THEN ExternalLink(
                      [s EXCEPT !.nxs.hasInter = TRUE,
                                !.nxs.interClass = "NXcollection"],
                      "intermediate",
                      s.desc[d].group_name \o "_" \o DataName(d), target)
        ELSE raise(s, "Exception")

\* data.backing_file[data.data_info.get('group_name')]
lookup_group(s, d) ==
    LET group_name == s.desc[d].info_group_name
    IN  IF s.err # "ok" THEN s
        ELSE IF group_name = "" THEN raise(s, "KeyError")
        ELSE IF s.desc[d].backing_file.st # "open" THEN raise(s, "ValueError")
        ELSE IF group_name \notin DOMAIN s.file[d].groups THEN raise(s, "KeyError")
        ELSE s

\* the link is registered before the metadata are written
add_data_links_first(s, d, linkType) ==
    LET s2 == lookup_group(barrier(s), d)
        s3 == register_link(s2, d, linkType)
        s4 == output_metadata(s3, d, s.desc[d].info_group_name)
    IN  barrier(s4)

add_data_links(s, d, linkType) ==
    LET s2 == lookup_group(barrier(s), d)
        s3 == output_metadata(s2, d, s.desc[d].info_group_name)
        s4 == register_link(s3, d, linkType)
    IN  barrier(s4)

\* closeOk: h5py's close() does not raise; nameOk: reading .filename of the file
\* just closed does not raise (it is h5py's choice, and the bare except takes both)
close_file(s, d, closeOk, nameOk) ==
    LET s1 == barrier(s)
        h == s1.desc[d].backing_file
        s2 == IF s1.err # "ok" \/ h = NoneHandle THEN s1
              ELSE LET c == [s1 EXCEPT !.nclose = @ + 1]
                   IN  IF h.st = "open" /\ ~closeOk
                       THEN [c EXCEPT !.closeOk = FALSE]
                       ELSE IF ~nameOk
                            THEN [c EXCEPT !.desc[d].backing_file.st = "closed",
                                           !.log = Append(@, "close")]
                            ELSE [c EXCEPT !.desc[d].backing_file = NoneHandle,
                                           !.log = Append(@, "close")]
    IN  barrier(s2)

\* data.remove is not looked at
no_link_mode(h, remove) == h.mode = "r"

\* data.remove is True or data.backing_file.mode == 'r'
no_link(h, remove) == remove \/ h.mode = "r"

\* remove: data.remove is True; env.attrOk: reading .mode of a closed file does
\* not raise
save_data(s, d, link_type, remove, env) ==
    LET s1 == barrier(s)
        h == s1.desc[d].backing_file
        s2 == IF remove THEN s1
              ELSE IF h = NoneHandle THEN raise(s1, "AttributeError")
              ELSE IF h.st = "closed" /\ ~env.attrOk THEN raise(s1, "ValueError")
              ELSE s1
        lt == IF no_link(h, remove) THEN "None" ELSE link_type
    IN  IF s2.err # "ok" THEN s2
        ELSE IF lt = "None" THEN close_file(s2, d, env.closeOk, env.nameOk)
        ELSE LET s3 == add_data_links(s2, d, lt)
                 s4 == IF s3.err # "ok" THEN s3
                       ELSE close_file(s3, d, env.closeOk, env.nameOk)
                 s5 == barrier(s4)
             IN  IF s5.err = "ok" THEN [s5 EXCEPT !.linked[d] = @ \cup {lt}]
                                  ELSE s5

\* entry: the in-file path of the array the caller knows from before
open_read_only(s, d, entry, ioOk) ==
    LET s1 == open_backing_h5(s, d, "r", ioOk)
        s2 == IF s1.err = "ok"
              THEN [s1 EXCEPT !.desc[d].backing_file = [s1.ret EXCEPT !.by = "reopen"]]
              ELSE s1
        s3 == IF s2.err # "ok" THEN s2
              ELSE IF ~HasArray(s2.file[d], entry) THEN raise(s2, "KeyError")
              ELSE [s2 EXCEPT !.desc[d].data = [path |-> entry, via |-> "ro"]]
    IN  barrier(s3)

(***************************************************************************)
(* Spec: the calls of the saver, each one whole.                           *)
(***************************************************************************)
Commit(s, name, d, remove) ==
    /\ desc' = s.desc
    /\ file' = s.file
    /\ nxs' = s.nxs
    /\ linked' = s.linked
    /\ lastOp' = [name |-> name, d |-> d, remove |-> remove, err |-> s.err]
    /\ UNCHANGED <<mpi, hasName, mpiVars, labelVars>>

\* the Data objects the framework has created and setup() has not yet seen
Fresh == {d \in Data : desc[d].info_group_name = "" /\ desc[d].backing_file = NoneHandle}

\* what setup() reads of each dataset: its current_and_next hint, and whether the
\* storage lets its file be opened
SetupInputs(out_data) == [out_data -> [hint : 0..1, ioOk : BOOLEAN]]

SetupCall(out_data, in) == Commit(setup(Start, out_data, in), "setup", 0, FALSE)

Setup ==
    \E out_data \in SUBSET Fresh \ {{}} : \E in \in SetupInputs(out_data) :
        SetupCall(out_data, in)

\* what h5py may do to the calls made on handle h: close() raising (closeOk) only
\* of an open file, .filename and .mode raising (nameOk, attrOk) only of a closed one
Env(h) == [closeOk : IF h.st = "open" THEN BOOLEAN ELSE {TRUE},
           nameOk : IF h.st = "None" THEN {TRUE} ELSE BOOLEAN,
           attrOk : IF h.st = "closed" THEN BOOLEAN ELSE {TRUE}]

SaveDataCall(d, link_type, remove, env) ==
    Commit(save_data(Start, d, link_type, remove, env), "save", d, remove)

SaveData ==
    \E d \in Data : \E link_type \in LinkTypes : \E remove \in BOOLEAN :
        \E env \in Env(desc[d].backing_file) :
            SaveDataCall(d, link_type, remove, env)

CloseFileCall(d, env) ==
    Commit(close_file(Start, d, env.closeOk, env.nameOk), "close", d, FALSE)

CloseFile ==
    \E d \in Data : \E env \in Env(desc[d].backing_file) : CloseFileCall(d, env)

OpenReadOnlyCall(d, ioOk) ==
    /\ desc[d].data # NoneArray
    /\ Commit(open_read_only(Start, d, desc[d].data.path, ioOk), "reopen", d, FALSE)

OpenReadOnly ==
    \E d \in Data : \E ioOk \in BOOLEAN : OpenReadOnlyCall(d, ioOk)

\* nothing written to the group yet
NoLabels == [dsets |-> <<>>, attrs |-> <<>>, written |-> FALSE]
\* Spec and SpecMPI keep the values of the labels out of the state
LabelsIdle ==
    /\ labelIn = [axis_labels |-> <<>>, shape |-> <<>>, meta_data |-> <<>>]
    /\ labelOut = NoLabels

\* Spec leaves the processes of SpecMPI where they are, past setup()
MpiInit ==
    /\ cn = [k \in Keys |-> 0]
    /\ pc = [p \in Procs |-> [key |-> NumKeys + 1, i |-> 1, wait |-> FALSE]]
    /\ arrived = [p \in Procs |-> 0]
    /\ nOpen = [p \in Procs |-> 0]

Init ==
    /\ mpi \in BOOLEAN
    /\ hasName \in BOOLEAN
    /\ desc = [d \in Data |-> NoDesc]
    /\ file = [d \in Data |-> NoFile]
    /\ nxs \in {EmptyNxs, EarlierNxs}
    /\ linked = [d \in Data |-> {}]
    /\ lastOp = NoOp
    /\ MpiInit
    /\ LabelsIdle

Next == Setup \/ SaveData \/ CloseFile \/ OpenReadOnly

Spec == Init /\ [][Next]_vars

(***************************************************************************)
(* SpecMPI: every process runs setup() over the same out_data, one         *)
(* statement (or one barrier) at a time.  A position is the key of the     *)
(* loop and the index of the statement the process is about to run; the    *)
(* statements are named by their line.                                     *)
(***************************************************************************)
Barriers == {"b73", "b81", "b88", "b102", "b108", "b111", "b114"}

\* a rank-dependent barrier: only process 1 calls the barrier of line 102
stmts_rank(p, k) ==
    <<"b73", "open76", "b81", "b88", "group98">>
    \o (IF p = 1 THEN <<"b102">> ELSE <<>>)
    \o (IF cn[k] = 0 THEN <<"data106">>
                     ELSE <<"b108", "chunks109", "b111", "data112">>)
    \o <<"b114">>

\* no barrier between the open of the file and the creation of the group
stmts_nosync(p, k) ==
    <<"b73", "open76", "group98", "b102">>
    \o (IF cn[k] = 0 THEN <<"data106">>
                     ELSE <<"b108", "chunks109", "b111", "data112">>)
    \o <<"b114">>

\* what process p runs in one turn of the loop of setup(), for key k:
\* __open_backing_h5, then __create_entries with the hint of k
stmts(p, k) ==
    <<"b73", "open76", "b81", "b88", "group98", "b102">>
    \o (IF cn[k] = 0 THEN <<"data106">>
                     ELSE <<"b108", "chunks109", "b111", "data112">>)
    \o <<"b114">>

Done(p) == pc[p].key > NumKeys
At(p) == IF Done(p) THEN "done" ELSE stmts(p, pc[p].key)[pc[p].i]

\* on to the next statement, or to the next key of the loop
Advance(p) ==
    pc' = [pc EXCEPT ![p] =
              IF pc[p].i < Len(stmts(p, pc[p].key))
              THEN [key |-> pc[p].key, i |-> pc[p].i + 1, wait |-> FALSE]
              ELSE [key |-> pc[p].key + 1, i |-> 1, wait |-> FALSE]]

\* a statement that is no barrier; opening the backing file is counted
Local(p) ==
    /\ At(p) \notin Barriers \cup {"done"}
    /\ Advance(p)
    /\ nOpen' = IF At(p) = "open76" THEN [nOpen EXCEPT ![p] = @ + 1] ELSE nOpen
    /\ UNCHANGED <<arrived, cn, seqVars>>

\* exp._barrier(): the process enters its next barrier ...
Arrive(p) ==
    /\ At(p) \in Barriers
    /\ ~pc[p].wait
    /\ pc' = [pc EXCEPT ![p].wait = TRUE]
    /\ arrived' = [arrived EXCEPT ![p] = @ + 1]
    /\ UNCHANGED <<nOpen, cn, seqVars>>

\* ... and leaves it once every process has entered it
Pass(p) ==
    /\ At(p) \in Barriers
    /\ pc[p].wait
    /\ \A q \in Procs : arrived[q] >= arrived[p]
    /\ Advance(p)
    /\ UNCHANGED <<arrived, nOpen, cn, seqVars>>

InitMPI ==
    /\ mpi = TRUE
    /\ hasName = FALSE
    /\ desc = [d \in Data |-> NoDesc]
    /\ file = [d \in Data |-> NoFile]
    /\ nxs = EmptyNxs
    /\ linked = [d \in Data |-> {}]
    /\ lastOp = NoOp
    /\ cn \in [Keys -> 0..1]
    /\ pc = [p \in Procs |-> [key |-> 1, i |-> 1, wait |-> FALSE]]
    /\ arrived = [p \in Procs |-> 0]
    /\ nOpen = [p \in Procs |-> 0]
    /\ LabelsIdle

Step(p) == Local(p) \/ Arrive(p) \/ Pass(p)

NextMPI == \E p \in Procs : Step(p)

SpecMPI == InitMPI /\ [][NextMPI]_vars

\* every process keeps running: none is held up except by a barrier
FairSpecMPI == SpecMPI /\ \A p \in Procs : WF_vars(Step(p))

(***************************************************************************)
(* SpecLabels: __output_axis_labels with the values it reads and writes.   *)
(* A metadata value is a python list or a numpy array (kind) of numbers    *)
(* (val); an axis label is a dict of one key, its name, and one value, its *)
(* units; the names of the labels of one dataset differ.                   *)
(***************************************************************************)
LabelNames == {"rotation_angle", "detector_y", "detector_x"}
Units == {"degrees", "pixel"}
MetaValues == {[kind |-> "list", val |-> <<10, 20>>],
               [kind |-> "array", val |-> <<5>>]}

\* numpy.arange(n) starts at 1
arange_one(n) == [kind |-> "array", val |-> [j \in 1..n |-> j]]

\* numpy.arange(n)
arange(n) == [kind |-> "array", val |-> [j \in 1..n |-> j - 1]]

\* if isinstance(mData, list): mData = np.array(mData)
np_array(mData) == IF mData.kind = "list" THEN [mData EXCEPT !.kind = "array"]
                                          ELSE mData

\* the body of the loop, for the axis numbered count (from 0), and the rest of it
RECURSIVE axis_loop(_, _, _)
axis_loop(out, in, count) ==
    IF count >= Len(in.axis_labels) THEN out
    ELSE LET labels == in.axis_labels[count + 1]
             name == labels.name
             mData == IF name \in DOMAIN in.meta_data
                      THEN in.meta_data[name]
                      ELSE arange(in.shape[count + 1])
             temp == [val |-> np_array(mData).val, kind |-> np_array(mData).kind,
                      units |-> labels.units]
         IN  axis_loop([out EXCEPT
                           !.attrs = ((name \o "_indices") :> count) @@ @,
                           !.dsets = (name :> temp) @@ @,
                           !.axes = Append(@, name)],
                       in, count + 1)

\* __output_axis_labels, by the values: the arrays created in data.group, and
\* the attributes of entry
axis_label_arrays(in) ==
    LET out == axis_loop([dsets |-> <<>>, attrs |-> <<>>, axes |-> <<>>], in, 0)
    IN  [dsets |-> out.dsets, attrs |-> ("axes" :> out.axes) @@ out.attrs,
         written |-> TRUE]

\* the axis labels of a dataset of n axes: one name and one units each
AxisLabels(n) ==
    {al \in [1..n -> [name : LabelNames, units : Units]] :
        \A i, j \in 1..n : al[i].name = al[j].name => i = j}

\* the meta data of a dataset: a value for some of the names of its labels
MetaData(al) ==
    UNION {[names -> MetaValues] : names \in SUBSET {al[i].name : i \in DOMAIN al}}

InitLabels ==
    /\ mpi = FALSE
    /\ hasName = FALSE
    /\ desc = [d \in Data |-> NoDesc]
    /\ file = [d \in Data |-> NoFile]
    /\ nxs = EmptyNxs
    /\ linked = [d \in Data |-> {}]
    /\ lastOp = NoOp
    /\ MpiInit
    /\ \E n \in 1..MaxAxes : \E al \in AxisLabels(n) :
         \E shape \in [1..n -> 1..MaxExtent] : \E md \in MetaData(al) :
            labelIn = [axis_labels |-> al, shape |-> shape, meta_data |-> md]
    /\ labelOut = NoLabels

OutputAxisLabels ==
    /\ ~labelOut.written
    /\ labelOut' = axis_label_arrays(labelIn)
    /\ UNCHANGED <<labelIn, mpi, hasName, desc, file, nxs, linked, lastOp, mpiVars>>

NextLabels == OutputAxisLabels

SpecLabels == InitLabels /\ [][NextLabels]_vars

(***************************************************************************)
(* Claims on setup() across processes.                                     *)
(***************************************************************************)
AllDone == \A p \in Procs : Done(p)

PastOpen == {"b88", "group98", "b102", "data106", "b108", "chunks109", "b111",
             "data112", "b114"}

\* C2: a process that has left __open_backing_h5 for a dataset (it is at the
\* creation of the group or the array, or at a later barrier) finds that every
\* process has opened the file of that dataset.
C2_OpenBeforeCreate ==
    \A p, q \in Procs :
        nOpen[q] >= (IF Done(p) THEN NumKeys
                     ELSE IF At(p) \in PastOpen THEN pc[p].key
                     ELSE pc[p].key - 1)

\* one process creates the group of the last dataset while another, which has
\* opened the file, still waits in the barrier before it
C2_Witness ==
    \E p, q \in Procs :
        /\ At(p) = "group98" /\ pc[p].key = NumKeys
        /\ At(q) = "b88" /\ pc[q].wait /\ pc[q].key = NumKeys

(***************************************************************************)
(* Claims on the calls of the saver (Spec).  A step of Spec is one call;   *)
(* lastOp' names it, the unprimed variables are the state it found.        *)
(* The Exception of the else branch of __add_data_links is raised for an   *)
(* unknown link type only.                                                 *)
(***************************************************************************)
Saved(d) == lastOp'.name = "save" /\ lastOp'.d = d
\* the step is _save_data(d, link_type) of a dataset that is not to be removed
SavedAs(d, link_type) ==
    /\ Saved(d)
    /\ ~lastOp'.remove
    /\ \E env \in Env(desc[d].backing_file) : SaveDataCall(d, link_type, FALSE, env)
Closed(d) == lastOp'.name = "close" /\ lastOp'.d = d
Reopened(d) == lastOp'.name = "reopen" /\ lastOp'.d = d

\* the links of the master index to the backing file of d
EntriesOf(links, d) == {l \in links : l.file = BaseName(FileName(d))}

\* C3: _open_read_only opens the file read-only, with and without mpi, binds
\* data.data to the array at the path it is given, and leaves the file as it is.
C3_ReopenReadOnly ==
    [][\A d \in Data :
        Reopened(d) =>
            /\ file' = file
            /\ lastOp'.err \in {"ok", "IOError"}
            /\ lastOp'.err = "ok" =>
                   /\ desc'[d].backing_file.st = "open"
                   /\ desc'[d].backing_file.mode = "r"
                   /\ desc'[d].data = [path |-> desc[d].data.path, via |-> "ro"]]_vars

\* C4: _save_data that reaches __add_data_links (the file open for writing, the
\* dataset not to be removed) with a link type that is neither 'final_result'
\* nor 'intermediate' raises, and the master index is as before.
C4_UnknownLinkRaises ==
    [][\A d \in Data :
        /\ SavedAs(d, "unknown")
        /\ desc[d].backing_file.st = "open"
        /\ desc[d].backing_file.mode = "r+"
        => /\ lastOp'.err # "ok"
           /\ nxs' = nxs]_vars

\* the else branch has raised and the links of the earlier plugin are still there
C4_Witness ==
    /\ lastOp.name = "save"
    /\ ~lastOp.remove
    /\ lastOp.err = "Exception"
    /\ nxs = EarlierNxs

\* C5: _save_data with an unknown link type leaves the backing file as it is: no
\* axis labels, no 'patterns' and no 'meta_data' group are written.
C5_UnknownLinkNoWrite ==
    [][\A d \in Data :
        SavedAs(d, "unknown") => file' = file]_vars

\* C6: after _close_file, data.backing_file is None, also when the close of the
\* file has failed, and no exception reaches the caller.
C6_CloseUnsets ==
    [][\A d \in Data :
        Closed(d) => /\ lastOp'.err = "ok"
                     /\ desc'[d].backing_file = NoneHandle]_vars

\* C7: a second _close_file right after a first one on the same Data object
\* raises nothing, does not call close() of the file, and changes nothing.
C7_CloseTwice ==
    [][\A d \in Data :
        lastOp.name = "close" /\ lastOp.d = d /\ Closed(d) =>
            /\ lastOp'.err = "ok"
            /\ close_file(Start, d, TRUE, TRUE).nclose = 0
            /\ desc' = desc]_vars

\* C8: _save_data of a dataset that is to be removed, whatever the link type,
\* raises nothing, leaves the master index and the backing file as they are,
\* and does to the Data object what _close_file does.
C8_RemoveOnlyCloses ==
    [][\A d \in Data :
        Saved(d) /\ lastOp'.remove =>
            /\ lastOp'.err = "ok"
            /\ nxs' = nxs
            /\ file' = file
            /\ linked' = linked
            /\ \E env \in Env(desc[d].backing_file) :
                   desc' = close_file(Start, d, env.closeOk, env.nameOk).desc]_vars

\* a dataset to be removed was saved: its file is closed, holds the array and no
\* metadata, and the index has no link to it
C8_Witness ==
    /\ lastOp.name = "save"
    /\ lastOp.remove
    /\ \E d \in Data :
        /\ lastOp.d = d
        /\ desc[d].backing_file = NoneHandle
        /\ desc[d].data.via = "setup"
        /\ \E g \in DOMAIN file[d].groups :
               file[d].groups[g].layout # "none" /\ ~file[d].groups[g].patterns
        /\ EntriesOf(nxs.entry \cup nxs.inter, d) = {}

\* C9: _save_data of a Data object whose file _open_read_only has opened, with or
\* without mpi, links nothing, writes nothing and raises nothing.
C9_ReopenedNotLinked ==
    [][\A d \in Data :
        /\ Saved(d)
        /\ desc[d].backing_file.by = "reopen"
        /\ desc[d].backing_file.st = "open"
        => /\ lastOp'.err = "ok"
           /\ nxs' = nxs
           /\ file' = file
           /\ linked' = linked]_vars

\* C10: the master index holds one link for each Data object _save_data has
\* linked (in 'entry' for 'final_result', in 'intermediate' for 'intermediate'),
\* none for any other, and never two for one; the links of earlier plugins stay.
C10_OneEntryPerLinked ==
    /\ \A d \in Data :
        /\ linked[d] \in {{}, {"final_result"}, {"intermediate"}}
        /\ Cardinality(EntriesOf(nxs.entry, d)) =
               (IF "final_result" \in linked[d] THEN 1 ELSE 0)
        /\ Cardinality(EntriesOf(nxs.inter, d)) =
               (IF "intermediate" \in linked[d] THEN 1 ELSE 0)
    /\ \A l \in nxs.entry \cup nxs.inter :
           \/ l \in EarlierNxs.entry \cup EarlierNxs.inter
           \/ \E d \in Data : l \in EntriesOf(nxs.entry \cup nxs.inter, d)
    /\ \/ nxs.entry \cap EarlierNxs.entry = {} /\ nxs.inter \cap EarlierNxs.inter = {}
       \/ EarlierNxs.entry \subseteq nxs.entry /\ EarlierNxs.inter \subseteq nxs.inter

\* a linked dataset was re-opened read-only and saved again: the index still
\* holds its one link
C10_Witness ==
    /\ lastOp.name = "save"
    /\ ~lastOp.remove
    /\ lastOp.err = "ok"
    /\ \E d \in Data :
        /\ lastOp.d = d
        /\ desc[d].data.via = "ro"
        /\ linked[d] # {}
        /\ Cardinality(EntriesOf(nxs.entry \cup nxs.inter, d)) = 1

(***************************************************************************)
(* Claims on what _save_data writes and links.                             *)
(***************************************************************************)
\* setup() has prepared d and nothing was done to it since: its file is open for
\* writing and holds the group with the "data" array and no metadata yet
Prepared(d) ==
    /\ desc[d].backing_file = [st |-> "open", mode |-> "r+", by |-> "setup"]
    /\ desc[d].data = [path |-> DataPath(desc[d].group), via |-> "setup"]
    /\ desc[d].group \in DOMAIN file[d].groups
    /\ file[d].groups[desc[d].group] =
           [NewGroup EXCEPT !.layout = file[d].groups[desc[d].group].layout]
    /\ linked[d] = {}

\* the reference to the group of d that holds its "data" array
LinkTo(d, name) ==
    [name |-> name, file |-> BaseName(FileName(d)), path |-> desc[d].group]

\* C11: _save_data with link type 'final_result' of a dataset setup() has
\* prepared adds to the entry group of the master index the reference
\* final_result_<name> to the backing file's base name and the group setup()
\* created, and nothing else.
C11_FinalLink ==
    [][\A d \in Data :
        Prepared(d) /\ SavedAs(d, "final_result") =>
            /\ lastOp'.err = "ok"
            /\ nxs' = [nxs EXCEPT !.entry =
                           @ \cup {LinkTo(d, "final_result_" \o DataName(d))}]]_vars

\* C12: _save_data with link type 'intermediate' of a dataset setup() has
\* prepared adds the reference <group_name>_<name>, group_name being the one the
\* experiment supplies, to the one 'intermediate' group of the master index,
\* which is an NXcollection and keeps the references it had.
C12_IntermediateLink ==
    [][\A d \in Data :
        Prepared(d) /\ SavedAs(d, "intermediate") =>
            /\ lastOp'.err = "ok"
            /\ nxs' = [nxs EXCEPT
                           !.hasInter = TRUE,
                           !.interClass = "NXcollection",
                           !.inter = @ \cup
                               {LinkTo(d, GroupName(d) \o "_" \o DataName(d))}]]_vars

\* C13: _save_data with a link type of a dataset setup() has prepared writes the
\* axis labels, 'patterns' and 'meta_data' into the group that holds the "data"
\* array, whether or not the name of that group was extended by the dataset's.
C13_MetadataInDataGroup ==
    [][\A d \in Data : \A lt \in {"final_result", "intermediate"} :
        Prepared(d) /\ SavedAs(d, lt) =>
            /\ DOMAIN file'[d].groups = {desc[d].group}
            /\ file'[d].groups[desc[d].group] =
                   [file[d].groups[desc[d].group] EXCEPT
                       !.labels = TRUE, !.axes = TRUE,
                       !.patterns = TRUE, !.meta = TRUE]]_vars

(***************************************************************************)
(* Claims on setup().                                                      *)
(***************************************************************************)
\* the datasets of out_data whose array the setup() step has created
Created(out_data) == {d \in out_data : desc'[d].data # NoneArray}

\* C14: setup() gives a dataset whose hint is 0 a contiguous array, without a
\* call of the chunking, and any other dataset an array with the chunks the
\* chunking returned for it.
C14_LayoutChoice ==
    [][lastOp'.name = "setup" =>
        \A out_data \in SUBSET Fresh \ {{}} : \A in \in SetupInputs(out_data) :
            SetupCall(out_data, in) =>
                /\ \A d \in Created(out_data) :
                       LET g == file'[d].groups[desc'[d].group]
                       IN  IF in[d].hint = 0
                           THEN g.layout = "contiguous" /\ g.chunks = "none"
                           ELSE g.layout = "chunked"
                                /\ g.chunks = ChunkShape(in[d].hint)
                /\ setup(Start, out_data, in).nchunk =
                       Cardinality({d \in Created(out_data) : in[d].hint # 0})]_vars

\* setup() has created a chunked array
C14_Witness ==
    /\ lastOp.name = "setup"
    /\ lastOp.err = "ok"
    /\ \E d \in Data :
           /\ desc[d].data = [path |-> DataPath(desc[d].group), via |-> "setup"]
           /\ file[d].groups[desc[d].group].layout = "chunked"
           /\ file[d].groups[desc[d].group].chunks = ChunkShape(1)

(***************************************************************************)
(* Claims on the order of the writes of one _save_data.                    *)
(***************************************************************************)
Range(f) == {f[x] : x \in DOMAIN f}

\* the writes before the i-th
Before(log, i) == {log[j] : j \in 1..(i - 1)}

\* C15: in any _save_data that registers the link of a dataset, the axis labels,
\* 'patterns' and 'meta_data' are written before the link is registered, through
\* the file handle that was open when the call began, and the file is closed
\* after the link and after nothing else.
C15_WritesBeforeLink ==
    \A d \in Data : \A link_type \in LinkTypes :
        \A env \in Env(desc[d].backing_file) :
            LET log == save_data(Start, d, link_type, FALSE, env).log
            IN  \A i \in DOMAIN log :
                    /\ log[i] = "link" =>
                           /\ Before(log, i) = {"axis_labels", "patterns", "meta_data"}
                           /\ desc[d].backing_file.st = "open"
                           /\ desc[d].backing_file.mode = "r+"
                    /\ log[i] = "close" /\ "link" \in Range(log) =>
                           i = Len(log) /\ log[i - 1] = "link"

\* a _save_data has written the metadata, registered the link and closed the file
C15_Witness ==
    /\ lastOp.name = "save"
    /\ lastOp.err = "ok"
    /\ \E d \in Data :
           /\ lastOp.d = d
           /\ linked[d] # {}
           /\ desc[d].backing_file = NoneHandle
           /\ desc[d].data.via = "setup"
           /\ \E l \in nxs.entry \cup nxs.inter :
                  /\ l.file = BaseName(FileName(d))
                  /\ l.path \in DOMAIN file[d].groups
                  /\ file[d].groups[l.path].labels
                  /\ file[d].groups[l.path].patterns
                  /\ file[d].groups[l.path].meta

(***************************************************************************)
(* Claims on a failing open.                                               *)
(***************************************************************************)
\* C16: when the open of the backing file of a dataset fails, setup() and
\* _open_read_only raise IOError to their caller, the Data object keeps the
\* backing_file it had (None in setup()), and nothing is created in the file.
C16_OpenFails ==
    [][/\ lastOp'.name = "setup" =>
            \A out_data \in SUBSET Fresh \ {{}} : \A in \in SetupInputs(out_data) :
                SetupCall(out_data, in) =>
                    \A d \in out_data :
                        ~in[d].ioOk => /\ lastOp'.err = "IOError"
                                       /\ desc'[d] = NoDesc
                                       /\ file'[d] = file[d]
       /\ \A d \in Data :
            Reopened(d) /\ OpenReadOnlyCall(d, FALSE) =>
                /\ lastOp'.err = "IOError"
                /\ desc' = desc
                /\ file' = file]_vars

\* setup() has failed to open the file of a dataset
C16_Witness ==
    /\ lastOp.name = "setup"
    /\ lastOp.err = "IOError"
    /\ \E d \in Data : desc[d] = NoDesc /\ file[d] = NoFile

(***************************************************************************)
(* Claims on the values of the axis labels (SpecLabels).                   *)
(***************************************************************************)
\* C17: once the axis labels are written, the array of each axis holds the
\* metadata value stored under the label's name, as an array, when there is
\* one, and 0 .. extent-1 of that axis otherwise; its 'units' attribute is the
\* label's units, and the 'axes' attribute lists the names in axis order.
C17_AxisLabels ==
    labelOut.written =>
        LET al == labelIn.axis_labels
        IN  /\ DOMAIN labelOut.dsets = {al[i].name : i \in DOMAIN al}
            /\ \A i \in DOMAIN al :
                   LET temp == labelOut.dsets[al[i].name]
                   IN  /\ temp.kind = "array"
                       /\ temp.units = al[i].units
                       /\ temp.val =
                              IF al[i].name \in DOMAIN labelIn.meta_data
                              THEN labelIn.meta_data[al[i].name].val
                              ELSE [j \in 1..labelIn.shape[i] |-> j - 1]
            /\ labelOut.attrs["axes"] = [i \in DOMAIN al |-> al[i].name]

\* the labels of a dataset of two axes are written: the first axis has no
\* metadata and an extent above 1, the second has a list
C17_Witness ==
    /\ labelOut.written
    /\ Len(labelIn.axis_labels) = 2
    /\ labelIn.axis_labels[1].name \notin DOMAIN labelIn.meta_data
    /\ labelIn.shape[1] > 1
    /\ labelIn.axis_labels[2].name \in DOMAIN labelIn.meta_data
    /\ labelIn.meta_data[labelIn.axis_labels[2].name].kind = "list"

(***************************************************************************)
(* Claims on the number of barriers of a call.                             *)
(***************************************************************************)
\* the inputs of setup() of a process whose opens all succeed
AllOpen(out_data, in) == [d \in out_data |-> [in[d] EXCEPT !.ioOk = TRUE]]

\* C18: a call in which something fails for this process alone (the open of a
\* file, close() of a file) makes as many barrier calls as the same call of a
\* process for which nothing fails, when the processes run under mpi.
C18_SameBarriers ==
    [][/\ mpi /\ lastOp'.name = "setup" =>
            \A out_data \in SUBSET Fresh \ {{}} : \A in \in SetupInputs(out_data) :
                SetupCall(out_data, in) =>
                    setup(Start, out_data, in).barriers =
                        setup(Start, out_data, AllOpen(out_data, in)).barriers
       /\ \A d \in Data :
            /\ mpi /\ Reopened(d) =>
                   \A ioOk \in BOOLEAN :
                       OpenReadOnlyCall(d, ioOk) =>
                           open_read_only(Start, d, desc[d].data.path, ioOk).barriers =
                               open_read_only(Start, d, desc[d].data.path, TRUE).barriers
            /\ mpi /\ Closed(d) =>
                   \A env \in Env(desc[d].backing_file) :
                       CloseFileCall(d, env) =>
                           close_file(Start, d, env.closeOk, env.nameOk).barriers =
                               close_file(Start, d, TRUE, TRUE).barriers
            /\ mpi /\ Saved(d) =>
                   \A link_type \in LinkTypes : \A env \in Env(desc[d].backing_file) :
                       SaveDataCall(d, link_type, lastOp'.remove, env) =>
                           save_data(Start, d, link_type, lastOp'.remove, env).barriers =
                               save_data(Start, d, link_type, lastOp'.remove,
                                         [env EXCEPT !.closeOk = TRUE,
                                                     !.nameOk = TRUE]).barriers]_vars

====
